---- MODULE Spec2Model ----
(***************************************************************************)
(* Model of djangodocker/settings.py: the helper get_env_var and the       *)
(* module-level statements that run, top to bottom, when the settings      *)
(* module is imported.                                                     *)
(*                                                                         *)
(*   Spec      the import of the settings module (lines 66-143)            *)
(*   SpecCall  one call of get_env_var with arbitrary arguments            *)
(***************************************************************************)
EXTENDS Integers, Sequences, FiniteSets, TLC

VARIABLES
    environ,        \* os.environ: a dict from variable names to strings
    argv,           \* sys.argv: a list of strings
    pc,             \* the statement of settings.py that runs next
    SECRET_KEY,     \* module globals, Unset until their assignment has run
    DEBUG,
    ALLOWED_HOSTS,
    DATABASES,
    log,            \* records emitted through `logger`, in order
    error,          \* the exception that left the module (or the call), if any
    probe,          \* what requests.get did at line 82
    call            \* the arguments of the get_env_var call made under SpecCall

vars == <<environ, argv, pc, SECRET_KEY, DEBUG, ALLOWED_HOSTS, DATABASES,
          log, error, probe, call>>

----------------------------------------------------------------------------
(* Bounds of the model *)

\* longest sys.argv explored
MaxArgv == 2

----------------------------------------------------------------------------
(* Python values.  A str, a list and None are kept apart by a tag, so that   *)
(* "h" and ["h"] are different values, as they are in Python.                *)

None == [t |-> "None"]

Str(s) == [t |-> "str", s |-> s]

List(l) == [t |-> "list", l |-> l]

Bool(b) == [t |-> "bool", b |-> b]

\* a module global whose assignment has not run
Unset == [t |-> "unset"]

\* the result slot of a call that raised instead of returning
NoReturn == [t |-> "noreturn"]

NoError == [type |-> "none"]

\* KeyError(f"Environment variable {name} if not defined")
KeyError(name) == [type |-> "KeyError", name |-> name]

\* 'str' object has no attribute 'append'
AttributeError == [type |-> "AttributeError"]

\* an exception of requests.get that `except ConnectionError` lets through
RequestError(kind) == [type |-> kind]

Range(s) == {s[i] : i \in 1..Len(s)}

----------------------------------------------------------------------------
(* The inputs explored *)

RequiredVars == <<"SECRET_KEY", "HOST", "DB_NAME", "DB_USER", "DB_PASSWORD", "DB_HOST">>

Names == Range(RequiredVars) \cup {"DEBUG"}

\* the strings a variable may hold in the environment
Values(n) ==
    IF n = "DEBUG" THEN {"1", "0", "true", ""}
    ELSE IF n = "HOST" THEN {"example.com", ""}
    ELSE IF n = "SECRET_KEY" THEN {"s3cret", ""}
    ELSE {"db"}

AllValues == UNION {Values(n) : n \in Names}

Environments ==
    UNION { {e \in [D -> AllValues] : \A n \in D : e[n] \in Values(n)} : D \in SUBSET Names }

Tokens == {"manage.py", "collectstatic", "runserver"}

Argvs == UNION {[1..n -> Tokens] : n \in 0..MaxArgv}

\* the bodies the metadata service may answer with
ResponseTexts == {"10.0.0.5", ""}

\* what requests.get(..., timeout=0.5) can do: return a response, or raise
\* ConnectionError, ConnectTimeout (a ConnectionError and a Timeout) or
\* ReadTimeout (a Timeout only)
ProbeOutcomes == {"ok", "ConnectionError", "ConnectTimeout", "ReadTimeout"}

\* the except_commands arguments explored: omitted (None) or an iterable
Iter(S) == [t |-> "iter", items |-> S]

ExceptCommandArgs ==
    {None, Iter({}), Iter({"collectstatic"}), Iter({"runserver"}),
     Iter({"migrate", "runserver"})}

----------------------------------------------------------------------------
(* get_env_var, lines 23-55 *)

\* os.environ.get(name), line 43
EnvironGet(env, name) == IF name \in DOMAIN env THEN Str(env[name]) ELSE None

\* faulty variant: no default exempt command
ExceptCommandsOrDefault_Empty(except_commands) ==
    IF except_commands = None THEN {} ELSE except_commands.items

\* lines 40-41 and 46: the set of exempt commands
ExceptCommandsOrDefault(except_commands) ==
    IF except_commands = None THEN {"collectstatic"} ELSE except_commands.items

\* faulty variant: sys.argv is not consulted
MatchingCommands_IgnoreArgv(ignore, args) == ignore

\* line 47: ignore.intersection(sys.argv)
MatchingCommands(ignore, args) == ignore \cap Range(args)

\* faulty variant: `var is None` dropped
MissingRequired_AnyRequired(required, var) == required

\* faulty variant: `required` dropped
MissingRequired_AnyMissing(required, var) == var = None

\* line 45: required and var is None
MissingRequired(required, var) == required /\ var = None

\* logger.info(...) of lines 51-52
InfoIgnored(name, matching) == [level |-> "INFO", name |-> name, commands |-> matching]

\* the whole function: what it returns or raises, and what it logs
GetEnvVar(env, args, name, required, except_commands) ==
    LET var == EnvironGet(env, name)
        matching_commands ==
            MatchingCommands(ExceptCommandsOrDefault(except_commands), args)
    IN  IF MissingRequired(required, var)
        THEN IF matching_commands = {}
             THEN [ret |-> NoReturn, exc |-> KeyError(name), logs |-> <<>>]
             ELSE [ret |-> Str("PLACEHOLDER"), exc |-> NoError,
                   logs |-> <<InfoIgnored(name, matching_commands)>>]
        ELSE [ret |-> var, exc |-> NoError, logs |-> <<>>]

----------------------------------------------------------------------------
(* The module body, lines 66-143 *)

EnvInit ==
    /\ environ \in Environments
    /\ argv \in Argvs
    /\ SECRET_KEY = Unset
    /\ DEBUG = Unset
    /\ ALLOWED_HOSTS = Unset
    /\ DATABASES = Unset
    /\ log = <<>>
    /\ error = NoError
    /\ probe = [outcome |-> "none", text |-> ""]
    /\ call = [name |-> "", required |-> TRUE, except_commands |-> None, ret |-> NoReturn]

Init == EnvInit /\ pc = "SECRET_KEY"

\* line 66
LoadSecretKey ==
    /\ pc = "SECRET_KEY"
    /\ LET r == GetEnvVar(environ, argv, "SECRET_KEY", TRUE, None)
       IN  /\ log' = log \o r.logs
           /\ error' = r.exc
           /\ IF r.exc = NoError
              THEN SECRET_KEY' = r.ret /\ pc' = "DEBUG"
              ELSE UNCHANGED SECRET_KEY /\ pc' = "aborted"
    /\ UNCHANGED <<environ, argv, DEBUG, ALLOWED_HOSTS, DATABASES, probe, call>>

\* faulty variant: bool(_debug) instead of the comparison with '1'
DebugFlag_Truthy(v) == v # None /\ v # Str("")

\* line 70: _debug == '1'
DebugFlag(v) == v = Str("1")

\* lines 69-70
LoadDebug ==
    /\ pc = "DEBUG"
    /\ LET r == GetEnvVar(environ, argv, "DEBUG", FALSE, None)
       IN  /\ log' = log \o r.logs
           /\ error' = r.exc
           /\ IF r.exc = NoError
              THEN DEBUG' = Bool(DebugFlag(r.ret)) /\ pc' = "ALLOWED_HOSTS"
              ELSE UNCHANGED DEBUG /\ pc' = "aborted"
    /\ UNCHANGED <<environ, argv, SECRET_KEY, ALLOWED_HOSTS, DATABASES, probe, call>>

\* line 72
LoadAllowedHosts ==
    /\ pc = "ALLOWED_HOSTS"
    /\ LET r == GetEnvVar(environ, argv, "HOST", TRUE, None)
       IN  /\ log' = log \o r.logs
           /\ error' = r.exc
           /\ IF r.exc = NoError
              THEN ALLOWED_HOSTS' = r.ret /\ pc' = "probe"
              ELSE UNCHANGED ALLOWED_HOSTS /\ pc' = "aborted"
    /\ UNCHANGED <<environ, argv, SECRET_KEY, DEBUG, DATABASES, probe, call>>

\* obj.append(x), line 84: only a list has the method
AppendTo(obj, x) ==
    IF obj.t = "list"
    THEN [val |-> List(Append(obj.l, x)), exc |-> NoError]
    ELSE [val |-> obj, exc |-> AttributeError]

\* faulty variant: no except clause
ProbeCaught_Nothing(outcome) == FALSE

\* line 85: except ConnectionError (the class and its subclasses)
ProbeCaught(outcome) == outcome \in {"ConnectionError", "ConnectTimeout"}

WarningNoMetadata == [level |-> "WARNING", msg |-> "Could not obtain EC2 metadata"]

\* lines 81-86: the try statement
ProbeMetadata ==
    /\ pc = "probe"
    /\ \E outcome \in ProbeOutcomes, text \in ResponseTexts :
        /\ probe' = [outcome |-> outcome, text |-> IF outcome = "ok" THEN text ELSE ""]
        /\ IF outcome = "ok"
           THEN LET a == AppendTo(ALLOWED_HOSTS, Str(text))
                IN  /\ ALLOWED_HOSTS' = a.val
                    /\ error' = a.exc
                    /\ pc' = IF a.exc = NoError THEN "DATABASES" ELSE "aborted"
                    /\ UNCHANGED log
           ELSE IF ProbeCaught(outcome)
           THEN /\ log' = Append(log, WarningNoMetadata)
                /\ pc' = "DATABASES"
                /\ UNCHANGED <<ALLOWED_HOSTS, error>>
           ELSE /\ error' = RequestError(outcome)
                /\ pc' = "aborted"
                /\ UNCHANGED <<ALLOWED_HOSTS, log>>
    /\ UNCHANGED <<environ, argv, SECRET_KEY, DEBUG, DATABASES, call>>

DBVars == <<"DB_NAME", "DB_USER", "DB_PASSWORD", "DB_HOST">>

\* the four calls of lines 138-141, evaluated in order; the first that raises
\* ends the evaluation
RECURSIVE EvalCalls(_, _, _)
EvalCalls(env, args, names) ==
    IF names = <<>>
    THEN [vals |-> <<>>, exc |-> NoError, logs |-> <<>>]
    ELSE LET r == GetEnvVar(env, args, Head(names), TRUE, None)
         IN  IF r.exc # NoError
             THEN [vals |-> <<>>, exc |-> r.exc, logs |-> r.logs]
             ELSE LET rest == EvalCalls(env, args, Tail(names))
                  IN  [vals |-> <<r.ret>> \o rest.vals,
                       exc  |-> rest.exc,
                       logs |-> r.logs \o rest.logs]

\* lines 135-143
LoadDatabases ==
    /\ pc = "DATABASES"
    /\ LET r == EvalCalls(environ, argv, DBVars)
       IN  /\ log' = log \o r.logs
           /\ error' = r.exc
           /\ IF r.exc = NoError
              THEN /\ DATABASES' =
                        [t |-> "dict",
                         default |-> [ENGINE   |-> Str("django.db.backends.postgresql"),
                                      NAME     |-> r.vals[1],
                                      USER     |-> r.vals[2],
                                      PASSWORD |-> r.vals[3],
                                      HOST     |-> r.vals[4]]]
                   /\ pc' = "done"
              ELSE UNCHANGED DATABASES /\ pc' = "aborted"
    /\ UNCHANGED <<environ, argv, SECRET_KEY, DEBUG, ALLOWED_HOSTS, probe, call>>

Next ==
    \/ LoadSecretKey
    \/ LoadDebug
    \/ LoadAllowedHosts
    \/ ProbeMetadata
    \/ LoadDatabases

Spec == Init /\ [][Next]_vars

----------------------------------------------------------------------------
(* One call of get_env_var with arbitrary arguments *)

InitCall == EnvInit /\ pc = "call"

CallGetEnvVar ==
    /\ pc = "call"
    /\ \E name \in Names, required \in BOOLEAN, except_commands \in ExceptCommandArgs :
        LET r == GetEnvVar(environ, argv, name, required, except_commands)
        IN  /\ call' = [name |-> name, required |-> required,
                        except_commands |-> except_commands, ret |-> r.ret]
            /\ error' = r.exc
            /\ log' = log \o r.logs
            /\ pc' = IF r.exc = NoError THEN "returned" ELSE "raised"
    /\ UNCHANGED <<environ, argv, SECRET_KEY, DEBUG, ALLOWED_HOSTS, DATABASES, probe>>

NextCall == CallGetEnvVar

SpecCall == InitCall /\ [][NextCall]_vars

----------------------------------------------------------------------------
(* Properties of get_env_var, checked under SpecCall *)

\* C1: a required variable that is absent, with no exempt command in the
\* invocation arguments, makes the call raise the error naming that variable;
\* nothing is returned.
C1_MissingRequiredRaises ==
    ( /\ pc # "call"
      /\ call.required
      /\ call.name \notin DOMAIN environ
      /\ \A c \in (IF call.except_commands = None
                   THEN {"collectstatic"}
                   ELSE call.except_commands.items) : \A i \in 1..Len(argv) : argv[i] # c )
    => ( /\ pc = "raised"
         /\ error = [type |-> "KeyError", name |-> call.name]
         /\ call.ret = NoReturn )

C1_Witness ==
    /\ pc = "raised"
    /\ call.name = "DB_NAME"
    /\ call.except_commands = Iter({"collectstatic"})
    /\ argv = <<"manage.py", "runserver">>
    /\ error = KeyError("DB_NAME")

\* C2: a variable present in the environment, the empty string included, is
\* returned exactly, whatever required, except_commands and the invocation
\* arguments are: no placeholder, no None, no error, no log.
C2_PresentReturnedUnchanged ==
    (pc # "call" /\ call.name \in DOMAIN environ)
    => ( /\ pc = "returned"
         /\ error = NoError
         /\ call.ret = [t |-> "str", s |-> environ[call.name]]
         /\ call.ret # None
         /\ call.ret # Str("PLACEHOLDER")
         /\ log = <<>> )

C2_Witness ==
    /\ pc = "returned"
    /\ call.name = "HOST"
    /\ call.required
    /\ call.except_commands = None
    /\ "HOST" \in DOMAIN environ
    /\ environ["HOST"] = ""
    /\ call.ret = Str("")
    /\ argv = <<"manage.py", "collectstatic">>

C4_OptionalAbsentIsNone ==
    (pc # "call" /\ ~call.required /\ call.name \notin DOMAIN environ)
    => ( /\ pc = "returned"
         /\ error = NoError
         /\ call.ret = [t |-> "None"]
         /\ call.ret # Str("PLACEHOLDER")
         /\ call.ret # Str("")
         /\ log = <<>> )

C4_Witness ==
    /\ pc = "returned"
    /\ ~call.required
    /\ call.name = "DEBUG"
    /\ "DEBUG" \notin DOMAIN environ
    /\ call.except_commands = None
    /\ argv = <<"manage.py", "collectstatic">>
    /\ call.ret = None

----------------------------------------------------------------------------
(* Properties of the settings load, checked under Spec *)

Present(n) == n \in DOMAIN environ

ExemptInArgv == \E i \in 1..Len(argv) : argv[i] = "collectstatic"

\* C5: DEBUG is true exactly when the DEBUG variable is present with the value
\* "1"; every other value, and absence, gives false, and the load never stops
\* at the DEBUG statement.
C5_DebugOnlyOnOne ==
    /\ DEBUG # Unset =>
           DEBUG = [t |-> "bool", b |-> (Present("DEBUG") /\ environ["DEBUG"] = "1")]
    /\ (SECRET_KEY # Unset /\ pc \notin {"SECRET_KEY", "DEBUG"}) => DEBUG # Unset
    /\ error # [type |-> "KeyError", name |-> "DEBUG"]

C5_Witness ==
    /\ pc = "done"
    /\ Present("DEBUG")
    /\ environ["DEBUG"] = "0"
    /\ DEBUG = Bool(FALSE)

\* C6: with every required variable present, the load is never aborted,
\* whatever the metadata probe does.
C6_ProbeNeverAborts ==
    (\A i \in 1..Len(RequiredVars) : Present(RequiredVars[i]))
    => (pc # "aborted" /\ error = NoError)

\* C7: HOST present with value h and a probe answering ip leave ALLOWED_HOSTS
\* as the list [h, ip].
C7_ProbeSuccessAppends ==
    (probe.outcome = "ok" /\ Present("HOST"))
    => ALLOWED_HOSTS = [t |-> "list", l |-> <<Str(environ["HOST"]), Str(probe.text)>>]

\* C8: HOST present with value h and a probe failing with a connection error
\* leave ALLOWED_HOSTS as the list [h], with a warning logged, no error, and
\* the load going on to the remaining settings.
C8_ProbeFailureKeepsList ==
    (pc = "DATABASES" /\ probe.outcome = "ConnectionError" /\ Present("HOST"))
    => ( /\ ALLOWED_HOSTS = [t |-> "list", l |-> <<Str(environ["HOST"])>>]
         /\ log # <<>>
         /\ log[Len(log)].level = "WARNING"
         /\ error = NoError )

\* the value a required setting is to hold when the exempt command is given
Expected(n) == IF Present(n) THEN Str(environ[n]) ELSE Str("PLACEHOLDER")

C10_MissingRequiredAbortsLoad ==
    ( /\ \A i \in 1..Len(argv) : argv[i] # "collectstatic"
      /\ \E i \in 1..Len(RequiredVars) : ~Present(RequiredVars[i]) )
    => ( /\ pc # "done"
         /\ pc = "aborted" =>
               /\ error.type = "KeyError"
               /\ error.name \in Range(RequiredVars)
               /\ ~Present(error.name) )

====
